---------------------------- MODULE Spec2Model ----------------------------
(***************************************************************************)
(* The client application controller of static/script.js as a state        *)
(* machine: the page (identity, navigation, forms, list regions, dashboard  *)
(* counters, toast), the browser's local storage, the requests in flight,   *)
(* and the Productivity API as a black box that answers each request.       *)
(*                                                                          *)
(* One step is one run of JavaScript to its next await: a DOM event         *)
(* handler up to its fetch, or the continuation of a handler after its      *)
(* fetch has settled.  The backend answers a request in a step of its own,  *)
(* so a response carries the collection as it was when the request was      *)
(* served, and responses are delivered in any order.                        *)
(***************************************************************************)
EXTENDS Integers, Sequences, FiniteSets, TLC

(***************************************************************************)
(* Bounds of the model.                                                     *)
(***************************************************************************)
\* user events (clicks, edits, submits) per behaviour
MaxUser == 2
\* page loads after the first per behaviour (a reload, a second window)
MaxReloads == 1
\* user events per behaviour of the navigation, form, list and dashboard
\* scenarios
MaxNav == 2
MaxFormOps == 4
MaxListOps == 3
MaxDashOps == 2
\* user events per behaviour of the analytics scenario
MaxAnalyticsOps == 3
\* user events per behaviour of the notification scenario
MaxToastOps == 3
\* the user acts only while fewer than this many requests are in flight
MaxInflight == 2
\* requests per behaviour that end otherwise than 2xx with the documented body
MaxFaults == 1

(***************************************************************************)
(* Vocabulary.                                                              *)
(***************************************************************************)
RTypes == {"task", "event", "email", "note"}

Sections == {"dashboard", "tasks", "calendar", "emails", "notes"}

\* The section whose list region shows resource type rt.
SectionOf(rt) ==
    CASE rt = "task"  -> "tasks"
      [] rt = "event" -> "calendar"
      [] rt = "email" -> "emails"
      [] rt = "note"  -> "notes"

\* JavaScript's null and undefined, as values distinct from every string.
JSNull == "<null>"

JSUndefined == "<undefined>"

\* JavaScript truthiness of a string-or-null-or-undefined value.
Truthy(v) == v \notin {JSNull, JSUndefined, ""}

\* Template-literal conversion `${v}`.
ToStr(v) ==
    CASE v = JSNull      -> "null"
      [] v = JSUndefined -> "undefined"
      [] OTHER           -> v

\* The n-th identity handle the backend issues.
Handle(n) == "u" \o ToString(n)

\* Values a text field holds: empty or some text.
FieldVals == {"", "x"}

\* A text that is itself the markup of an item block with a delete control,
\* such as <div class="note-item"><div class="item-actions"><button
\* onclick="deleteNote('0')">Delete</button></div></div>.
Markup == "<m>"

\* What a form holds: field a is the first field read by the submit handler
\* (task-title, event-title, email-to, note-title), field b stands for the
\* remaining fields.
FormVals == [a : FieldVals, b : FieldVals]

\* A form after HTMLFormElement.reset(): every field back to its default.
EmptyForm == [a |-> "", b |-> ""]

(***************************************************************************)
(* State.                                                                   *)
(***************************************************************************)
VARIABLES
    localStorage,   \* value under the key 'userId', JSNull when absent
    nextUser,       \* backend: number of the next identity it creates
    db,             \* backend: the entities, in creation order
    nextId,         \* backend: the next entity id
    pc,             \* page: "start", "awaitUser", "ready" or "crashed"
    currentUserId,  \* page: the module-level variable
    listeners,      \* page: setupEventListeners has run
    activeNav,      \* page: nav items carrying class 'active'
    activeTab,      \* page: tab contents carrying class 'active'
    pageTitle,      \* page: text of #page-title
    formHidden,     \* page: per form, whether it carries class 'hidden'
    fields,         \* page: per form, the field values
    region,         \* page: per resource type, the content of its list region
    counters,       \* page: the four dashboard counters
    analytics,      \* page: text of #daily-summary and #weekly-report
    toast,          \* page: the toast element
    timers,         \* page: pending dismissal timers
    net,            \* requests in flight, in the order issued
    focus,          \* the resource types the user works with
    budget,         \* user events left
    reloads,        \* page reloads left
    faults,         \* requests that may still fail
    ev              \* the step just taken: handler, outcome, requests issued

page == <<pc, currentUserId, listeners, activeNav, activeTab, pageTitle,
          formHidden, fields, region, counters, analytics, toast, timers>>

backend == <<nextUser, db, nextId>>

env == <<focus, budget, reloads, faults>>

vars == <<localStorage, backend, page, net, env, ev>>

(***************************************************************************)
(* Requests and responses.                                                  *)
(***************************************************************************)
NoBody == [shape |-> "none", items |-> <<>>, val |-> ""]

\* A request just issued by fetch().  op is the endpoint, rt the resource
\* root of the path, uid and eid the identity and entity id in the path,
\* payload the JSON body, cont the handler that awaits the response.
Req(op, rt, uid, eid, payload, cont) ==
    [op |-> op, rt |-> rt, uid |-> uid, eid |-> eid, payload |-> payload,
     cont |-> cont, live |-> TRUE, st |-> "sent", out |-> "-", body |-> NoBody]

\* How a request can end: "ok" 2xx with the documented body; "malformed"
\* 2xx with a JSON body lacking the expected field; "reject" a non-2xx
\* status with a JSON error body; "garbled" a non-2xx status whose body is
\* not JSON; "neterr" a transport failure (fetch rejects).
Outcomes == {"ok", "malformed", "reject", "garbled", "neterr"}

\* fetch() resolved (it rejects only on a transport failure).
Resolved(m) == m.out # "neterr"

\* response.ok
RespOk(m) == m.out \in {"ok", "malformed"}

\* response.json() resolves
JsonParses(m) == m.out \in {"ok", "malformed", "reject"}

\* the parsed body holds the field the handler reads
HasField(m) == m.out = "ok"

\* The sequence s without its i-th element.
RemoveAt(s, i) == SubSeq(s, 1, i - 1) \o SubSeq(s, i + 1, Len(s))


(***************************************************************************)
(* The page as the document delivers it, before any script has run.  The   *)
(* markup is not part of the sources: forms start hidden and the dashboard *)
(* is the active section (spec 4.2, 4.3); -1 and "initial" stand for the    *)
(* text the markup puts into the counters and the analytics regions.        *)
(***************************************************************************)
InitialSection == "dashboard"

\* The label text of the nav control of section s.
NavLabel(s) == s

InitialRegion == [kind |-> "initial", blocks |-> <<>>]

NoEv == [h |-> "-", rt |-> "-", res |-> "-", eid |-> 0, sent |-> <<>>]

Ev(h, rt, res, eid, sent) ==
    [h |-> h, rt |-> rt, res |-> res, eid |-> eid, sent |-> sent]

Blank ==
    [pc |-> "start",
     currentUserId |-> JSNull,
     listeners |-> FALSE,
     active |-> {InitialSection},
     pageTitle |-> NavLabel(InitialSection),
     formHidden |-> [rt \in RTypes |-> TRUE],
     fields |-> [rt \in RTypes |-> EmptyForm],
     region |-> [rt \in RTypes |-> InitialRegion],
     counters |-> [rt \in RTypes |-> -1],
     analytics |-> [daily |-> "initial", weekly |-> "initial"],
     toast |-> [show |-> FALSE, type |-> "none"]]

FreshPage ==
    /\ pc = Blank.pc
    /\ currentUserId = Blank.currentUserId
    /\ listeners = Blank.listeners
    /\ activeNav = Blank.active
    /\ activeTab = Blank.active
    /\ pageTitle = Blank.pageTitle
    /\ formHidden = Blank.formHidden
    /\ fields = Blank.fields
    /\ region = Blank.region
    /\ counters = Blank.counters
    /\ analytics = Blank.analytics
    /\ toast = Blank.toast
    /\ timers = 0

(***************************************************************************)
(* The backend's entities.                                                  *)
(***************************************************************************)
Entity(id, rt, owner, a, status) ==
    [id |-> id, rt |-> rt, owner |-> owner, a |-> a, status |-> status]

\* Two entities of each type for identity u1 and a task of another
\* identity; t is the title (subject) of the second entity of each type.
Stock(t) ==
    <<Entity(1, "task", "u1", "x", "pending"),
      Entity(2, "task", "u9", "x", "pending"),
      Entity(3, "task", "u1", t, "completed"),
      Entity(4, "event", "u1", "x", "-"),
      Entity(5, "event", "u1", t, "-"),
      Entity(6, "email", "u1", "x", "-"),
      Entity(7, "email", "u1", t, "-"),
      Entity(8, "note", "u1", "x", "-"),
      Entity(9, "note", "u1", t, "-")>>

\* What the backend may hold when the page loads with the identity u1 of an
\* earlier session persisted: nothing, or the stock entities, their titles
\* plain text or, for some, text that is markup.
InitialDbs == { <<>>, Stock("x"), Stock(Markup) }

\* GET /{root}/{uid}: the entities of type rt that uid owns, in the
\* backend's order.
Collection(rt, uid) ==
    LET Mine(e) == e.rt = rt /\ e.owner = uid
    IN  SelectSeq(db, Mine)

Exists(rt, eid) == \E i \in 1..Len(db) : db[i].rt = rt /\ db[i].id = eid

(***************************************************************************)
(* Initial states: a fresh browser profile, or one that holds the identity  *)
(* of an earlier session together with what that session left at the       *)
(* backend.                                                                 *)
(***************************************************************************)
InitWith(F, B, R, Flt) ==
    /\ FreshPage
    /\ net = <<>>
    /\ ev = NoEv
    /\ focus \in F
    /\ budget = B
    /\ reloads = R
    /\ faults = Flt
    /\ \/ /\ localStorage = JSNull
          /\ nextUser = 1
          /\ db = <<>>
          /\ nextId = 1
       \/ /\ localStorage = Handle(1)
          /\ nextUser = 2
          /\ db \in InitialDbs
          /\ nextId = Len(db) + 1

Init == InitWith({RTypes}, MaxUser, MaxReloads, MaxFaults)


(***************************************************************************)
(* Client helpers.                                                          *)
(***************************************************************************)
idVars == <<pc, currentUserId, listeners>>

navVars == <<activeNav, activeTab, pageTitle>>

formVars == <<formHidden, fields>>

dashVars == <<counters, analytics>>

toastVars == <<toast, timers>>

\* showToast(message, type): the text and classes are set, and a timer is
\* started that removes class 'show'.
showToast(type) ==
    /\ toast' = [show |-> TRUE, type |-> type]
    /\ timers' = timers + 1

\* classList.toggle('hidden') on a form whose flag is hidden.
toggleForm(hidden) == ~hidden

\* resetForm(formId)
resetForm(form) == EmptyForm

\* The fetch of a list loader (loadTasks, loadEvents, loadEmails, loadNotes)
\* run with currentUserId = uid: none without an identity.
loadList(rt, uid) ==
    IF ~Truthy(uid) THEN <<>>
    ELSE <<Req("list", rt, ToStr(uid), 0, EmptyForm, "list")>>

loadTasks(uid) == loadList("task", uid)

loadEvents(uid) == loadList("event", uid)

loadEmails(uid) == loadList("email", uid)

loadNotes(uid) == loadList("note", uid)

Loader(rt, uid) ==
    CASE rt = "task"  -> loadTasks(uid)
      [] rt = "event" -> loadEvents(uid)
      [] rt = "email" -> loadEmails(uid)
      [] rt = "note"  -> loadNotes(uid)

\* A loadDashboardData that issues its two fetches together.
loadDashboardDataParallel(uid) ==
    IF ~Truthy(uid) THEN <<>>
    ELSE <<Req("list", "task", ToStr(uid), 0, EmptyForm, "dashTasks"),
           Req("list", "event", ToStr(uid), 0, EmptyForm, "dashEvents")>>

\* A loadDashboardData without the identity guard.
loadDashboardDataUnguarded(uid) ==
    <<Req("list", "task", ToStr(uid), 0, EmptyForm, "dashTasks")>>

\* The first fetch of loadDashboardData run with currentUserId = uid.
loadDashboardData(uid) ==
    IF ~Truthy(uid) THEN <<>>
    ELSE <<Req("list", "task", ToStr(uid), 0, EmptyForm, "dashTasks")>>

\* The second fetch of loadDashboardData.
dashboardEventsFetch(uid) ==
    <<Req("list", "event", ToStr(uid), 0, EmptyForm, "dashEvents")>>

\* tasksData.tasks.filter(t => t.status !== 'completed').length
ActiveTasks(items) ==
    Cardinality({i \in 1..Len(items) : items[i].status # "completed"})

\* The action controls of an item block of type rt.
Controls(rt) == IF rt = "task" THEN {"complete", "delete"} ELSE {"delete"}

\* What the HTML parser finds in a text that a template inserts with ${...}
\* into the string assigned to innerHTML: the text is not escaped, so the
\* item block it spells becomes an element of the region, its control bound
\* to the id the text spells.
InjectedBlocks(text) ==
    IF text = Markup THEN <<[id |-> 0, ctl |-> {"delete"}]>> ELSE <<>>

\* The elements of the template of one entity e of type rt: the item block
\* with the controls, bound to e's id, and inside it what the title holds.
ItemBlocks(rt, e) ==
    <<[id |-> e.id, ctl |-> Controls(rt)]>> \o InjectedBlocks(e.a)

\* data.<items>.map(item => `...`).join(''), assigned to innerHTML: the
\* blocks of the entities in the collection's order, in document order.
RECURSIVE RenderedBlocks(_, _)
RenderedBlocks(rt, items) ==
    IF items = <<>> THEN <<>>
    ELSE ItemBlocks(rt, Head(items)) \o RenderedBlocks(rt, Tail(items))

RenderItems(rt, items) ==
    [kind |-> "items", blocks |-> RenderedBlocks(rt, items)]

\* The empty-state placeholder.
Placeholder == [kind |-> "placeholder", blocks |-> <<>>]

\* A loader without the empty-state branch.
RenderListItemsOnly(rt, items) == RenderItems(rt, items)

\* What the list loader of rt puts into its region for a parsed body.
RenderList(rt, items) ==
    IF Len(items) = 0 THEN Placeholder ELSE RenderItems(rt, items)

\* A refresh that reloads the list only, whatever the type.
RefreshListOnly(rt, uid) == Loader(rt, uid)

\* A refresh that reloads the dashboard counters only.
RefreshDashboardOnly(rt, uid) == loadDashboardData(uid)

\* What runs after a successful mutation of rt: the list loader and, for
\* tasks and events, loadDashboardData.
Refresh(rt, uid) ==
    IF rt \in {"task", "event"}
    THEN Loader(rt, uid) \o loadDashboardData(uid)
    ELSE Loader(rt, uid)

(***************************************************************************)
(* Page load.                                                               *)
(***************************************************************************)
\* A bootstrap that asks for a new identity whatever local storage holds.
NeedsIdentityAlways(stored) == TRUE

\* if (!userId), on the value read from local storage
NeedsIdentity(stored) == ~Truthy(stored)

\* The DOMContentLoaded handler up to its first await that waits: with a
\* persisted handle loadUserId returns at once, the listeners are wired and
\* loadDashboardData starts; without one the create-identity request is
\* issued.
DOMContentLoaded ==
    /\ pc = "start"
    /\ IF NeedsIdentity(localStorage)
       THEN /\ pc' = "awaitUser"
            /\ UNCHANGED <<currentUserId, listeners>>
            /\ ev' = Ev("DOMContentLoaded", "-", "create", 0,
                        <<Req("createUser", "-", "-", 0, EmptyForm, "loadUserId")>>)
            /\ net' = net \o ev'.sent
       ELSE /\ currentUserId' = localStorage
            /\ listeners' = TRUE
            /\ pc' = "ready"
            /\ ev' = Ev("DOMContentLoaded", "-", "stored", 0,
                        loadDashboardData(localStorage))
            /\ net' = net \o ev'.sent
    /\ UNCHANGED <<localStorage, backend, navVars, formVars, region, dashVars,
                   toastVars, env>>

\* loadUserId after its fetch has settled with response m, and the rest of
\* the DOMContentLoaded handler (setupEventListeners, loadDashboardData).
loadUserIdResume(m) ==
    /\ IF ~Resolved(m) \/ ~JsonParses(m)
       THEN \* catch: toast and return; the handler goes on
            /\ showToast("error")
            /\ pc' = "ready"
            /\ listeners' = TRUE
            /\ UNCHANGED <<currentUserId, localStorage>>
            /\ ev' = Ev("loadUserId", "-", m.out, 0, loadDashboardData(currentUserId))
       ELSE IF ~HasField(m)
       THEN \* data.user_id is undefined: setItem stores "undefined", and
            \* userId.substring throws out of the handler
            /\ localStorage' = ToStr(JSUndefined)
            /\ currentUserId' = JSUndefined
            /\ pc' = "crashed"
            /\ UNCHANGED <<listeners, toastVars>>
            /\ ev' = Ev("loadUserId", "-", m.out, 0, <<>>)
       ELSE /\ localStorage' = m.body.val
            /\ currentUserId' = m.body.val
            /\ pc' = "ready"
            /\ listeners' = TRUE
            /\ UNCHANGED toastVars
            /\ ev' = Ev("loadUserId", "-", m.out, 0, loadDashboardData(m.body.val))
    /\ UNCHANGED <<navVars, formVars, region, dashVars>>

\* The requests of s as those of a document the model does not follow:
\* they reach the backend, and their responses change that document only.
Unfollowed(s) == [k \in 1..Len(s) |-> [s[k] EXCEPT !.live = FALSE]]

\* loadUserId after the fetch settled, in a document that is still open
\* beside the one the model follows: the same code, of which the write to
\* local storage and the requests of loadDashboardData are kept; what it
\* does to its own document is not followed.
loadUserIdElsewhere(m) ==
    /\ IF ~Resolved(m) \/ ~JsonParses(m)
       THEN /\ UNCHANGED localStorage
            /\ ev' = Ev("loadUserIdElsewhere", "-", m.out, 0, <<>>)
       ELSE IF ~HasField(m)
       THEN /\ localStorage' = ToStr(JSUndefined)
            /\ ev' = Ev("loadUserIdElsewhere", "-", m.out, 0, <<>>)
       ELSE /\ localStorage' = m.body.val
            /\ ev' = Ev("loadUserIdElsewhere", "-", m.out, 0,
                        Unfollowed(loadDashboardData(m.body.val)))
    /\ UNCHANGED page

(***************************************************************************)
(* Continuations of the other handlers, each run with the response m of    *)
(* the fetch it awaited.  ev'.sent holds the requests the continuation     *)
(* issues.                                                                  *)
(***************************************************************************)
\* A create handler that takes every settled POST for a success.
CreateSucceededAlways(m) == TRUE

\* try { ... if (response.ok) ... }: the POST resolved with a 2xx status.
CreateSucceeded(m) == Resolved(m) /\ RespOk(m)

\* createTask, createEvent, sendEmail, createNote after the POST settled.
createResume(m) ==
    /\ IF CreateSucceeded(m)
       THEN /\ showToast("success")
            /\ fields' = [fields EXCEPT ![m.rt] = resetForm(@)]
            /\ formHidden' = [formHidden EXCEPT ![m.rt] = toggleForm(@)]
            /\ ev' = Ev("create", m.rt, m.out, 0, Refresh(m.rt, currentUserId))
       ELSE /\ showToast("error")
            /\ UNCHANGED formVars
            /\ ev' = Ev("create", m.rt, m.out, 0, <<>>)
    /\ UNCHANGED <<localStorage, idVars, navVars, region, dashVars>>

\* A loader that renders only while its section is the active one.
listResumeIfActive(m) ==
    /\ IF Resolved(m) /\ JsonParses(m) /\ HasField(m) /\ SectionOf(m.rt) \in activeTab
       THEN region' = [region EXCEPT ![m.rt] = RenderList(m.rt, m.body.items)]
       ELSE UNCHANGED region
    /\ UNCHANGED toastVars
    /\ ev' = Ev("list", m.rt, m.out, 0, <<>>)
    /\ UNCHANGED <<localStorage, idVars, navVars, formVars, dashVars>>

\* loadTasks, loadEvents, loadEmails, loadNotes after the GET settled.
listResume(m) ==
    /\ IF ~Resolved(m) \/ ~JsonParses(m)
       THEN /\ showToast("error")
            /\ UNCHANGED region
            /\ ev' = Ev("list", m.rt, m.out, 0, <<>>)
       ELSE IF ~HasField(m)
       THEN IF m.rt \in {"email", "note"}
            THEN \* !data.emails, !data.notes
                 /\ region' = [region EXCEPT ![m.rt] = Placeholder]
                 /\ UNCHANGED toastVars
                 /\ ev' = Ev("list", m.rt, m.out, 0, <<>>)
            ELSE \* data.tasks.length throws, caught
                 /\ showToast("error")
                 /\ UNCHANGED region
                 /\ ev' = Ev("list", m.rt, m.out, 0, <<>>)
       ELSE /\ region' = [region EXCEPT ![m.rt] = RenderList(m.rt, m.body.items)]
            /\ UNCHANGED toastVars
            /\ ev' = Ev("list", m.rt, m.out, 0, <<>>)
    /\ UNCHANGED <<localStorage, idVars, navVars, formVars, dashVars>>

\* loadDashboardData after its tasks fetch settled.
dashTasksResume(m) ==
    /\ IF Resolved(m) /\ JsonParses(m) /\ HasField(m)
       THEN /\ counters' = [counters EXCEPT !["task"] = ActiveTasks(m.body.items)]
            /\ ev' = Ev("dashTasks", "task", m.out, 0, dashboardEventsFetch(currentUserId))
       ELSE /\ UNCHANGED counters
            /\ ev' = Ev("dashTasks", "task", m.out, 0, <<>>)
    /\ UNCHANGED <<localStorage, idVars, navVars, formVars, region, analytics, toastVars>>

\* loadDashboardData after its events fetch settled.
dashEventsResume(m) ==
    /\ IF Resolved(m) /\ JsonParses(m) /\ HasField(m)
       THEN /\ counters' = [counters EXCEPT !["event"] = Len(m.body.items),
                                            !["email"] = 0, !["note"] = 0]
            /\ ev' = Ev("dashEvents", "event", m.out, 0, <<>>)
       ELSE /\ UNCHANGED counters
            /\ ev' = Ev("dashEvents", "event", m.out, 0, <<>>)
    /\ UNCHANGED <<localStorage, idVars, navVars, formVars, region, analytics, toastVars>>

\* An updateTaskStatus that reloads nothing after the PUT settled.
updateResumeNoReload(m) ==
    /\ IF ~Resolved(m)
       THEN showToast("error")
       ELSE IF RespOk(m) THEN showToast("success") ELSE UNCHANGED toastVars
    /\ ev' = Ev("update", "task", m.out, m.eid, <<>>)
    /\ UNCHANGED <<localStorage, idVars, navVars, formVars, region, dashVars>>

\* updateTaskStatus after the PUT settled.
updateResume(m) ==
    /\ IF ~Resolved(m)
       THEN /\ showToast("error")
            /\ ev' = Ev("update", "task", m.out, m.eid, <<>>)
       ELSE IF RespOk(m)
       THEN /\ showToast("success")
            /\ ev' = Ev("update", "task", m.out, m.eid,
                        loadTasks(currentUserId) \o loadDashboardData(currentUserId))
       ELSE /\ UNCHANGED toastVars
            /\ ev' = Ev("update", "task", m.out, m.eid, <<>>)
    /\ UNCHANGED <<localStorage, idVars, navVars, formVars, region, dashVars>>

\* deleteTask, deleteEvent, deleteEmail, deleteNote after the DELETE settled:
\* the status of the response is not read.
deleteResume(m) ==
    /\ IF ~Resolved(m)
       THEN /\ showToast("error")
            /\ ev' = Ev("delete", m.rt, m.out, m.eid, <<>>)
       ELSE /\ showToast("success")
            /\ ev' = Ev("delete", m.rt, m.out, m.eid,
                        Refresh(m.rt, currentUserId))
    /\ UNCHANGED <<localStorage, idVars, navVars, formVars, region, dashVars>>

\* The field's value shown whenever the field is there.
AnalyticsTextVerbatim(m) == IF HasField(m) THEN m.body.val
                            ELSE "No data available"

\* data.summary || 'No data available'
AnalyticsText(m) == IF HasField(m) /\ Truthy(m.body.val) THEN m.body.val
                    ELSE "No data available"

\* getDailySummary, getWeeklyReport after the GET settled.
analyticsResume(m) ==
    /\ IF Resolved(m) /\ JsonParses(m)
       THEN /\ analytics' = [analytics EXCEPT ![m.rt] = AnalyticsText(m)]
            /\ UNCHANGED toastVars
            /\ ev' = Ev("analytics", m.rt, m.out, 0, <<>>)
       ELSE /\ showToast("error")
            /\ UNCHANGED analytics
            /\ ev' = Ev("analytics", m.rt, m.out, 0, <<>>)
    /\ UNCHANGED <<localStorage, idVars, navVars, formVars, region, counters>>

\* The response of request i reaches the page: the handler awaiting it runs
\* to its end or to its next fetch.
Deliver(i) ==
    /\ net[i].st = "done"
    /\ LET m == net[i]
       IN  /\ CASE m.cont = "loadUserId" -> loadUserIdResume(m)
                [] m.cont = "loadUserIdElsewhere" -> loadUserIdElsewhere(m)
                [] m.cont = "create"     -> createResume(m)
                [] m.cont = "list"       -> listResume(m)
                [] m.cont = "dashTasks"  -> dashTasksResume(m)
                [] m.cont = "dashEvents" -> dashEventsResume(m)
                [] m.cont = "update"     -> updateResume(m)
                [] m.cont = "delete"     -> deleteResume(m)
                [] m.cont = "analytics"  -> analyticsResume(m)
           /\ net' = RemoveAt(net, i) \o ev'.sent
    /\ UNCHANGED <<backend, env>>

(***************************************************************************)
(* The Productivity API, a black box: it answers a request in flight with   *)
(* one of the outcomes.  A mutation takes effect exactly when it is         *)
(* answered 2xx; its response body is never read by the client.             *)
(***************************************************************************)
OutcomesOf(op) ==
    IF op \in {"create", "update", "delete"} THEN {"ok", "reject", "neterr"}
    ELSE Outcomes

\* The texts the analytics endpoints may return in their field: some text,
\* or the empty string.
AnalyticsTexts == {"", "text"}

\* The bodies a 2xx response to m with the documented shape may have.
OkBodies(m) ==
    CASE m.op = "createUser" ->
           {[shape |-> "json", items |-> <<>>, val |-> Handle(nextUser)]}
      [] m.op = "list" ->
           {[shape |-> "json", items |-> Collection(m.rt, m.uid), val |-> ""]}
      [] m.op = "analytics" ->
           {[shape |-> "json", items |-> <<>>, val |-> t] : t \in AnalyticsTexts}
      [] OTHER -> {NoBody}

\* The backend's entities after it has carried out m.
Applied(m) ==
    CASE m.op = "create" ->
           Append(db, Entity(nextId, m.rt, m.uid, m.payload.a,
                             IF m.rt = "task" THEN "pending" ELSE "-"))
      [] m.op = "update" ->
           [i \in 1..Len(db) |->
              IF db[i].rt = m.rt /\ db[i].id = m.eid
              THEN [db[i] EXCEPT !.status = m.payload.b] ELSE db[i]]
      [] m.op = "delete" ->
           LET Keep(e) == ~(e.rt = m.rt /\ e.id = m.eid) IN SelectSeq(db, Keep)
      [] OTHER -> db

Serve(i, out) ==
    /\ net[i].st = "sent"
    /\ out \in OutcomesOf(net[i].op)
    /\ out # "ok" => faults > 0
    /\ faults' = IF out = "ok" THEN faults ELSE faults - 1
    /\ out = "ok" /\ net[i].op \in {"update", "delete"} => Exists(net[i].rt, net[i].eid)
    /\ LET m == net[i]
       IN  /\ \E body \in (IF out = "ok" THEN OkBodies(m) ELSE {NoBody}) :
                  LET answered == [m EXCEPT !.st = "done", !.out = out, !.body = body]
                  IN  net' = IF m.live THEN [net EXCEPT ![i] = answered]
                             ELSE RemoveAt(net, i)
           /\ db' = IF out = "ok" THEN Applied(m) ELSE db
           /\ nextId' = IF out = "ok" /\ m.op = "create" THEN nextId + 1 ELSE nextId
           /\ nextUser' = IF out = "ok" /\ m.op = "createUser" THEN nextUser + 1
                          ELSE nextUser
    /\ ev' = Ev("serve", "-", "-", 0, <<>>)
    /\ UNCHANGED <<localStorage, page, focus, budget, reloads>>

(***************************************************************************)
(* User events.  Each spends one unit of the budget.                        *)
(***************************************************************************)
Spend ==
    /\ budget > 0
    /\ Len(net) < MaxInflight
    /\ budget' = budget - 1
    /\ UNCHANGED <<focus, reloads, faults>>

\* A tab switch that loads the task list whatever the section.
TabLoadTasks(s, uid) == loadTasks(uid)

\* The list load switchTab starts for section s.
TabLoad(s, uid) ==
    CASE s = "tasks"    -> loadTasks(uid)
      [] s = "calendar" -> loadEvents(uid)
      [] s = "emails"   -> loadEmails(uid)
      [] s = "notes"    -> loadNotes(uid)
      [] OTHER          -> <<>>

\* An activation that leaves the class on the elements that carry it.
ActivateKeeping(active, s) == active \cup {s}

\* classList.remove('active') on every element of the kind, then
\* classList.add('active') on the one of section s.
Activate(active, s) == (active \ Sections) \cup {s}

\* A click on the nav control of section s.
switchTab(s) ==
    /\ listeners
    /\ Spend
    /\ activeNav' = Activate(activeNav, s)
    /\ activeTab' = Activate(activeTab, s)
    /\ pageTitle' = NavLabel(s)
    /\ ev' = Ev("switchTab", s, "-", 0, TabLoad(s, currentUserId))
    /\ net' = net \o ev'.sent
    /\ UNCHANGED <<localStorage, backend, idVars, formVars, region, dashVars, toastVars>>

\* A click on the open control (add-task-btn, add-event-btn,
\* compose-email-btn, add-note-btn) of form rt.
ClickOpen(rt) ==
    /\ listeners
    /\ Spend
    /\ formHidden' = [formHidden EXCEPT ![rt] = toggleForm(@)]
    /\ ev' = Ev("open", rt, "-", 0, <<>>)
    /\ UNCHANGED <<localStorage, backend, idVars, navVars, fields, region, dashVars,
                   toastVars, net>>

\* A click on the cancel control of form rt.
ClickCancel(rt) ==
    /\ listeners
    /\ Spend
    /\ formHidden' = [formHidden EXCEPT ![rt] = toggleForm(@)]
    /\ ev' = Ev("cancel", rt, "-", 0, <<>>)
    /\ UNCHANGED <<localStorage, backend, idVars, navVars, fields, region, dashVars,
                   toastVars, net>>

\* The user changes the fields of the visible form rt to v.
Edit(rt, v) ==
    /\ ~formHidden[rt]
    /\ v # fields[rt]
    /\ Spend
    /\ fields' = [fields EXCEPT ![rt] = v]
    /\ ev' = Ev("edit", rt, "-", 0, <<>>)
    /\ UNCHANGED <<localStorage, backend, idVars, navVars, formHidden, region, dashVars,
                   toastVars, net>>

\* A submit handler that checks no field.
NeverSuppressed(rt, form) == FALSE

\* A submit that is also dropped while a create request of the form is
\* pending.
SuppressedWhilePending(rt, form) ==
    \/ rt = "email" /\ ~Truthy(form.a)
    \/ \E i \in 1..Len(net) : net[i].op = "create" /\ net[i].rt = rt

\* if (!emailTo): sendEmail alone checks a field before its fetch.
Suppressed(rt, form) == rt = "email" /\ ~Truthy(form.a)

\* The submit event of the visible form rt: createTask, createEvent,
\* sendEmail, createNote up to the fetch.
Submit(rt) ==
    /\ listeners
    /\ ~formHidden[rt]
    /\ Spend
    /\ IF Suppressed(rt, fields[rt])
       THEN /\ showToast("error")
            /\ ev' = Ev("submit", rt, "suppressed", 0, <<>>)
       ELSE /\ UNCHANGED toastVars
            /\ ev' = Ev("submit", rt, "sent", 0,
                        <<Req("create", rt, ToStr(currentUserId), 0, fields[rt], "create")>>)
    /\ net' = net \o ev'.sent
    /\ UNCHANGED <<localStorage, backend, idVars, navVars, formVars, region, dashVars>>

\* The list region of rt shows a block for entity eid with control c.
Shows(rt, eid, c) ==
    \E k \in 1..Len(region[rt].blocks) :
        region[rt].blocks[k].id = eid /\ c \in region[rt].blocks[k].ctl

\* A click on the complete control of the task block of eid:
\* updateTaskStatus(eid, 'completed') up to the fetch.
ClickComplete(eid) ==
    /\ Shows("task", eid, "complete")
    /\ Spend
    /\ ev' = Ev("complete", "task", "sent", eid,
                <<Req("update", "task", "-", eid, [a |-> "", b |-> "completed"], "update")>>)
    /\ net' = net \o ev'.sent
    /\ UNCHANGED <<localStorage, backend, page>>

\* A delete handler that does not ask.
DeleteRequestsUnasked(rt, eid, confirmed) ==
    <<Req("delete", rt, "-", eid, EmptyForm, "delete")>>

\* if (confirm(...)) { await fetch(..., { method: 'DELETE' }) ... }
DeleteRequests(rt, eid, confirmed) ==
    IF confirmed THEN <<Req("delete", rt, "-", eid, EmptyForm, "delete")>> ELSE <<>>

\* A click on the delete control of the block of eid, and the user's answer
\* to confirm(): deleteTask, deleteEvent, deleteEmail, deleteNote up to the
\* fetch.
ClickDelete(rt, eid, confirmed) ==
    /\ Shows(rt, eid, "delete")
    /\ Spend
    /\ ev' = Ev("remove", rt, IF confirmed THEN "confirmed" ELSE "declined", eid,
                DeleteRequests(rt, eid, confirmed))
    /\ net' = net \o ev'.sent
    /\ UNCHANGED <<localStorage, backend, page>>

\* A click on daily-summary-btn (which = "daily") or weekly-report-btn
\* (which = "weekly"): getDailySummary, getWeeklyReport up to the fetch.
ClickAnalytics(which) ==
    /\ listeners
    /\ Spend
    /\ ev' = Ev("analyticsClick", which, "-", 0,
                IF ~Truthy(currentUserId) THEN <<>>
                ELSE <<Req("analytics", which, ToStr(currentUserId), 0, EmptyForm,
                           "analytics")>>)
    /\ net' = net \o ev'.sent
    /\ UNCHANGED <<localStorage, backend, page>>

\* The requests in flight when the document the model follows is left
\* behind.  closed: the document is gone, so the responses of its requests
\* are dropped while the requests already sent still reach the backend.
\* Otherwise it stays open, unattended: its load handler still runs when
\* its create-identity request settles; its other continuations issue no
\* request but reads and change that document only.  A continuation of a
\* document left open earlier is kept.
LeftBehind(closed) ==
    LET Kept(m) == \/ m.st = "sent"
                   \/ m.cont = "loadUserIdElsewhere"
                   \/ ~closed /\ m.cont = "loadUserId"
        kept == SelectSeq(net, Kept)
    IN  [k \in 1..Len(kept) |->
           IF kept[k].cont = "loadUserIdElsewhere" THEN kept[k]
           ELSE IF ~closed /\ kept[k].cont = "loadUserId"
           THEN [kept[k] EXCEPT !.cont = "loadUserIdElsewhere"]
           ELSE [kept[k] EXCEPT !.live = FALSE]]

\* The user reloads the page: the document and the script start afresh,
\* local storage stays, the responses of the old page's requests are
\* dropped, and the requests already sent still reach the backend.
Reload ==
    /\ pc # "start"
    /\ reloads > 0
    /\ reloads' = reloads - 1
    /\ pc' = Blank.pc
    /\ currentUserId' = Blank.currentUserId
    /\ listeners' = Blank.listeners
    /\ activeNav' = Blank.active
    /\ activeTab' = Blank.active
    /\ pageTitle' = Blank.pageTitle
    /\ formHidden' = Blank.formHidden
    /\ fields' = Blank.fields
    /\ region' = Blank.region
    /\ counters' = Blank.counters
    /\ analytics' = Blank.analytics
    /\ toast' = Blank.toast
    /\ timers' = 0
    /\ net' = LeftBehind(TRUE)
    /\ ev' = Ev("reload", "-", "-", 0, <<>>)
    /\ UNCHANGED <<localStorage, backend, focus, budget, faults>>

\* The user opens the application in a second window while the first stays
\* open: a new document and script start with the same local storage, and
\* the model follows the new document from here on.
OpenSecondWindow ==
    /\ pc # "start"
    /\ reloads > 0
    /\ reloads' = reloads - 1
    /\ pc' = Blank.pc
    /\ currentUserId' = Blank.currentUserId
    /\ listeners' = Blank.listeners
    /\ activeNav' = Blank.active
    /\ activeTab' = Blank.active
    /\ pageTitle' = Blank.pageTitle
    /\ formHidden' = Blank.formHidden
    /\ fields' = Blank.fields
    /\ region' = Blank.region
    /\ counters' = Blank.counters
    /\ analytics' = Blank.analytics
    /\ toast' = Blank.toast
    /\ timers' = 0
    /\ net' = LeftBehind(FALSE)
    /\ ev' = Ev("secondWindow", "-", "-", 0, <<>>)
    /\ UNCHANGED <<localStorage, backend, focus, budget, faults>>

\* A dismissal timer of showToast fires: class 'show' is removed.
TimerFires ==
    /\ timers > 0
    /\ timers' = timers - 1
    /\ toast' = [toast EXCEPT !.show = FALSE]
    /\ ev' = Ev("timer", "-", "-", 0, <<>>)
    /\ UNCHANGED <<localStorage, backend, idVars, navVars, formVars, region, dashVars,
                   net, env>>

(***************************************************************************)
(* The whole application.                                                   *)
(***************************************************************************)
FocusSections == {"dashboard"} \cup {SectionOf(rt) : rt \in focus}

\* The ids a control of a region can be bound to: those the backend has
\* issued, and the one a text of markup spells.
Ids == 0..(nextId - 1)

Next ==
    \/ DOMContentLoaded
    \/ Reload
    \/ OpenSecondWindow
    \/ TimerFires
    \/ \E i \in 1..Len(net) : \E out \in Outcomes : Serve(i, out)
    \/ \E i \in 1..Len(net) : Deliver(i)
    \/ \E s \in FocusSections : switchTab(s)
    \/ \E rt \in focus : ClickOpen(rt)
    \/ \E rt \in focus : ClickCancel(rt)
    \/ \E rt \in focus : \E v \in FormVals : Edit(rt, v)
    \/ \E rt \in focus : Submit(rt)
    \/ \E eid \in Ids : "task" \in focus /\ ClickComplete(eid)
    \/ \E rt \in focus : \E eid \in Ids : \E c \in BOOLEAN : ClickDelete(rt, eid, c)
    \/ \E w \in {"daily", "weekly"} : ClickAnalytics(w)

Spec == Init /\ [][Next]_vars

(***************************************************************************)
(* Scenarios: the application driven by a user who keeps to one part of    *)
(* the page, so that part can be explored with a larger budget.  Each      *)
(* takes its steps from Next.                                               *)
(***************************************************************************)
OneType == {{rt} : rt \in RTypes}

NetStep ==
    \/ \E i \in 1..Len(net) : \E out \in Outcomes : Serve(i, out)
    \/ \E i \in 1..Len(net) : Deliver(i)

\* Page loads and reloads only.
BootNext ==
    \/ DOMContentLoaded
    \/ Reload
    \/ NetStep

SpecBoot == InitWith({{}}, 0, MaxReloads, MaxFaults) /\ [][BootNext]_vars

\* Page loads, reloads and loads in a second window.
WindowsNext ==
    \/ DOMContentLoaded
    \/ Reload
    \/ OpenSecondWindow
    \/ NetStep

SpecWindows == InitWith({{}}, 0, MaxReloads, MaxFaults) /\ [][WindowsNext]_vars

\* Navigation between the sections.
NavNext ==
    \/ DOMContentLoaded
    \/ \E s \in Sections : switchTab(s)
    \/ NetStep

SpecNav == InitWith({RTypes}, MaxNav, 0, MaxFaults) /\ [][NavNext]_vars

\* The form of one resource type: open, cancel, edit, submit.
FormNext ==
    \/ DOMContentLoaded
    \/ \E rt \in focus : ClickOpen(rt)
    \/ \E rt \in focus : ClickCancel(rt)
    \/ \E rt \in focus : \E v \in FormVals : Edit(rt, v)
    \/ \E rt \in focus : Submit(rt)
    \/ NetStep

SpecForm == InitWith(OneType, MaxFormOps, 0, MaxFaults) /\ [][FormNext]_vars

\* The list of one resource type: enter its section, complete, delete.
ListNext ==
    \/ DOMContentLoaded
    \/ \E s \in FocusSections : switchTab(s)
    \/ \E eid \in Ids : "task" \in focus /\ ClickComplete(eid)
    \/ \E rt \in focus : \E eid \in Ids : \E c \in BOOLEAN : ClickDelete(rt, eid, c)
    \/ NetStep

SpecList == InitWith(OneType, MaxListOps, 0, MaxFaults) /\ [][ListNext]_vars

\* Mutations of tasks and events, and the dashboard counters.
DashNext ==
    \/ DOMContentLoaded
    \/ \E s \in FocusSections : switchTab(s)
    \/ \E rt \in focus : ClickOpen(rt)
    \/ \E rt \in focus : Submit(rt)
    \/ \E eid \in Ids : "task" \in focus /\ ClickComplete(eid)
    \/ \E rt \in focus : \E eid \in Ids : ClickDelete(rt, eid, TRUE)
    \/ NetStep

SpecDash == InitWith({{"task"}, {"event"}}, MaxDashOps, 0, MaxFaults) /\ [][DashNext]_vars

\* The analytics section: enter it, ask for the summary and the report.
AnalyticsNext ==
    \/ DOMContentLoaded
    \/ \E s \in FocusSections \cup {"analytics"} : switchTab(s)
    \/ \E w \in {"daily", "weekly"} : ClickAnalytics(w)
    \/ NetStep

SpecAnalytics ==
    InitWith({{}}, MaxAnalyticsOps, 0, MaxFaults) /\ [][AnalyticsNext]_vars

\* Notifications: the email or the note form is opened and submitted, and
\* the dismissal timers fire.
ToastNext ==
    \/ DOMContentLoaded
    \/ \E rt \in focus : ClickOpen(rt)
    \/ \E rt \in focus : Submit(rt)
    \/ TimerFires
    \/ NetStep

SpecToast ==
    InitWith({{"email"}, {"note"}}, MaxToastOps, 0, MaxFaults) /\ [][ToastNext]_vars

(***************************************************************************)
(* Properties.  A step is identified by ev', the record of the handler that *)
(* ran in it; the requests it issued are ev'.sent, and the response a       *)
(* continuation ran with is the answered request that left net.             *)
(***************************************************************************)
\* The number of requests of s to endpoint op.
CountOp(s, op) == Cardinality({i \in 1..Len(s) : s[i].op = op})

\* The number of requests of s that handler cont awaits for resource rt.
CountCont(s, cont, rt) ==
    Cardinality({i \in 1..Len(s) : s[i].cont = cont /\ s[i].rt = rt})

\* The answered requests of net that handler cont awaits.
Answered(cont) ==
    {i \in 1..Len(net) : net[i].cont = cont /\ net[i].st = "done"}

\* C1: on page load with nothing persisted under 'userId' exactly one
\* create-identity request is issued, and when the backend answers it with a
\* handle that handle is stored under 'userId' and becomes currentUserId;
\* with a value persisted no create-identity request is issued and the
\* persisted value becomes currentUserId.  No other step issues a
\* create-identity request.
C1_IdentityBootstrap ==
    [][ /\ ev'.h = "DOMContentLoaded" /\ localStorage = JSNull =>
              /\ CountOp(ev'.sent, "createUser") = 1
              /\ Len(ev'.sent) = 1
              /\ net' = net \o ev'.sent
        /\ ev'.h = "DOMContentLoaded" /\ localStorage # JSNull =>
              /\ CountOp(ev'.sent, "createUser") = 0
              /\ net' = net \o ev'.sent
              /\ currentUserId' = localStorage
              /\ localStorage' = localStorage
        /\ ev'.h # "DOMContentLoaded" => CountOp(ev'.sent, "createUser") = 0
        /\ ev'.h = "loadUserId" /\ ev'.res = "ok" =>
              \E i \in Answered("loadUserId") :
                  /\ net[i].op = "createUser"
                  /\ Truthy(net[i].body.val)
                  /\ localStorage' = net[i].body.val
                  /\ currentUserId' = net[i].body.val
      ]_vars

\* A fresh profile has received its first handle: it is persisted and is the
\* session identity.
C1_Witness ==
    /\ ev.h = "loadUserId"
    /\ ev.res = "ok"
    /\ localStorage = Handle(1)
    /\ currentUserId = Handle(1)

\* A create form that passes the browser's required-field check: its first
\* field is filled.
ValidForm(form) == Truthy(form.a)

\* C2: for every resource type, a submit of a valid create form issues
\* exactly one request, the create request of that type with the session
\* identity in its path and the form's fields as its body; and with a
\* session identity present, the continuation that receives a 2xx response
\* to a create request issues exactly one list fetch, for the list of that
\* type and identity.
C2_OneCreateOneRefetch ==
    [][ /\ ev'.h = "submit" /\ ValidForm(fields[ev'.rt]) =>
              /\ Len(ev'.sent) = 1
              /\ ev'.sent[1].op = "create"
              /\ ev'.sent[1].rt = ev'.rt
              /\ ev'.sent[1].uid = ToStr(currentUserId)
              /\ ev'.sent[1].payload = fields[ev'.rt]
              /\ net' = net \o ev'.sent
        /\ ev'.h = "create" /\ ev'.res = "ok" /\ Truthy(currentUserId) =>
              /\ CountCont(ev'.sent, "list", ev'.rt) = 1
              /\ \A k \in 1..Len(ev'.sent) :
                     ev'.sent[k].cont = "list" =>
                        /\ ev'.sent[k].op = "list"
                        /\ ev'.sent[k].rt = ev'.rt
                        /\ ev'.sent[k].uid = currentUserId
              /\ \E i \in Answered("create") :
                     /\ net[i].rt = ev'.rt
                     /\ net' = RemoveAt(net, i) \o ev'.sent
      ]_vars

\* A create request sent from a valid form with the session identity has
\* been answered 2xx, the backend holds the new entity, and the list fetch
\* the response triggered is in flight.
C2_Witness ==
    /\ ev.h = "create"
    /\ ev.res = "ok"
    /\ Truthy(currentUserId)
    /\ \E i \in 1..Len(net) :
          /\ net[i].cont = "list"
          /\ net[i].rt = ev.rt
          /\ net[i].uid = currentUserId
    /\ \E i \in 1..Len(db) :
          /\ db[i].rt = ev.rt
          /\ db[i].owner = currentUserId
          /\ db[i].id = nextId - 1
          /\ Truthy(db[i].a)

\* C3: for every resource type, in the state right after the continuation
\* of a create request has handled a 2xx response, the form of that type is
\* hidden and its fields are reset, whatever the user did while the request
\* was in flight.
C3_HiddenAndResetAfterSuccess ==
    ev.h = "create" /\ ev.res = "ok" =>
        /\ formHidden[ev.rt]
        /\ fields[ev.rt] = EmptyForm

\* C4: for every resource type, the continuation of a create request that
\* failed (non-2xx status, or a transport error) shows an error toast,
\* leaves the visibility flag and the field values of every form as they
\* were, and issues no request: no list fetch and no dashboard fetch.
C4_CreateFailureKeepsForm ==
    [][ ev'.h = "create" /\ ev'.res \in {"reject", "neterr"} =>
          /\ toast' = [show |-> TRUE, type |-> "error"]
          /\ timers' = timers + 1
          /\ formHidden' = formHidden
          /\ fields' = fields
          /\ ev'.sent = <<>>
          /\ \E i \in Answered("create") :
                 /\ net[i].out = ev'.res
                 /\ net' = RemoveAt(net, i)
          /\ region' = region
          /\ counters' = counters
      ]_vars

\* A create request sent from a filled, visible form has failed: the error
\* toast shows and the form is still visible and filled.
C4_Witness ==
    /\ ev.h = "create"
    /\ ev.res \in {"reject", "neterr"}
    /\ toast = [show |-> TRUE, type |-> "error"]
    /\ ~formHidden[ev.rt]
    /\ Truthy(fields[ev.rt].a)
    /\ net = <<>>

\* C9: a submit of the email form while its recipient field is empty
\* issues no request, shows an error toast, and leaves the visibility flag
\* and every field value of every form unchanged.
C9_EmptyRecipientSuppressed ==
    [][ ev'.h = "submit" /\ ev'.rt = "email" /\ fields["email"].a = "" =>
          /\ ev'.sent = <<>>
          /\ net' = net
          /\ toast' = [show |-> TRUE, type |-> "error"]
          /\ timers' = timers + 1
          /\ formHidden' = formHidden
          /\ fields' = fields
      ]_vars

\* The email form was submitted with its subject and body filled and its
\* recipient empty: the error toast shows, nothing is in flight, and the
\* form is still visible with its other fields filled.
C9_Witness ==
    /\ ev.h = "submit"
    /\ ev.rt = "email"
    /\ fields["email"] = [a |-> "", b |-> "x"]
    /\ ~formHidden["email"]
    /\ toast = [show |-> TRUE, type |-> "error"]
    /\ net = <<>>
    /\ pc = "ready"

\* Nothing is in flight, no request has failed, and the backend's entities
\* are no longer those the page was loaded with: a mutation of the one type
\* the user works with has taken effect and every request it triggered has
\* been answered and handled.
SettledAfterMutation(rt) ==
    /\ focus = {rt}
    /\ db \notin InitialDbs
    /\ net = <<>>
    /\ faults = MaxFaults
    /\ Truthy(currentUserId)

\* The backend's tasks of uid whose status is not 'completed'.
BackendActiveTasks(uid) ==
    Cardinality({i \in 1..Len(db) :
        db[i].rt = "task" /\ db[i].owner = uid /\ db[i].status # "completed"})

\* The backend's events of uid.
BackendEvents(uid) ==
    Cardinality({i \in 1..Len(db) : db[i].rt = "event" /\ db[i].owner = uid})

\* C5: after a task mutation, once every request it triggered has been
\* answered, the task counter shows the number of the identity's backend
\* tasks that are not completed; after an event mutation the event counter
\* shows the number of the identity's backend events; in whatever order the
\* responses of the dashboard refreshes in flight arrived.
C5_CountersMatchBackend ==
    /\ SettledAfterMutation("task") =>
          counters["task"] = BackendActiveTasks(currentUserId)
    /\ SettledAfterMutation("event") =>
          counters["event"] = BackendEvents(currentUserId)

\* C6: for every resource type, a click on a delete control whose
\* confirmation is declined issues no request; one whose confirmation is
\* accepted issues exactly one request, the DELETE of that entity id, and no
\* list fetch in the same step; and the continuation that runs once the
\* DELETE has completed issues exactly one list fetch, for the list of that
\* type.
C6_DeleteGatedThenRefetch ==
    [][ /\ ev'.h = "remove" /\ ev'.res = "declined" =>
              /\ ev'.sent = <<>>
              /\ net' = net
        /\ ev'.h = "remove" /\ ev'.res = "confirmed" =>
              /\ Len(ev'.sent) = 1
              /\ ev'.sent[1].op = "delete"
              /\ ev'.sent[1].rt = ev'.rt
              /\ ev'.sent[1].eid = ev'.eid
              /\ net' = net \o ev'.sent
        /\ ev'.h = "delete" /\ ev'.res # "neterr" =>
              /\ CountCont(ev'.sent, "list", ev'.rt) = 1
              /\ \A k \in 1..Len(ev'.sent) :
                     ev'.sent[k].cont = "list" =>
                        /\ ev'.sent[k].op = "list"
                        /\ ev'.sent[k].rt = ev'.rt
                        /\ ev'.sent[k].uid = currentUserId
              /\ \E i \in Answered("delete") :
                     /\ net[i].rt = ev'.rt
                     /\ net[i].eid = ev'.eid
                     /\ net' = RemoveAt(net, i) \o ev'.sent
      ]_vars

\* A confirmed delete has been carried out by the backend and its response
\* handled: the entity is gone and the list fetch is in flight.
C6_Witness ==
    /\ ev.h = "delete"
    /\ ev.res = "ok"
    /\ ~Exists(ev.rt, ev.eid)
    /\ \E i \in 1..Len(net) :
          net[i].cont = "list" /\ net[i].rt = ev.rt /\ net[i].st = "sent"

\* C7: with a session identity present, a click on the tasks, calendar,
\* emails or notes nav control issues exactly one request, the list fetch of
\* that section for the identity; a click on the dashboard nav control
\* issues no request.
C7_TabEntryFetchesOnce ==
    [][ ev'.h = "switchTab" /\ Truthy(currentUserId) =>
          IF ev'.rt = "dashboard"
          THEN /\ ev'.sent = <<>>
               /\ net' = net
          ELSE /\ Len(ev'.sent) = 1
               /\ ev'.sent[1].op = "list"
               /\ ev'.sent[1].cont = "list"
               /\ SectionOf(ev'.sent[1].rt) = ev'.rt
               /\ ev'.sent[1].uid = currentUserId
               /\ net' = net \o ev'.sent
      ]_vars

\* The emails section has just been entered with an identity and nothing
\* else in flight: its list fetch is the one request in flight.
C7_Witness ==
    /\ ev.h = "switchTab"
    /\ ev.rt = "emails"
    /\ Truthy(currentUserId)
    /\ activeTab = {"emails"}
    /\ Len(net) = 1
    /\ net[1].cont = "list"
    /\ net[1].rt = "email"

\* C8: a selection of a nav control leaves exactly one section active, the
\* selected one, with the nav control of that section the one marked active
\* and the page title equal to that control's label; and no other step of
\* the page changes the active section, the active nav control or the page
\* title, so in every state after a selection the active section is the
\* most recently selected one.
C8_OneActiveSection ==
    [][ /\ ev'.h = "switchTab" =>
              /\ ev'.rt \in Sections
              /\ activeTab' = {ev'.rt}
              /\ Cardinality(activeTab' \cap Sections) = 1
              /\ activeNav' = {ev'.rt}
              /\ pageTitle' = NavLabel(ev'.rt)
        /\ ev'.h \notin {"switchTab", "reload"} =>
              /\ activeTab' = activeTab
              /\ activeNav' = activeNav
              /\ pageTitle' = pageTitle
      ]_vars

\* The notes section was selected after the tasks section had been entered
\* and its list rendered, and a response has been handled since: notes is
\* the one active section.
C8_Witness ==
    /\ budget = 0
    /\ region["task"].kind # "initial"
    /\ ev.h \in {"list", "dashTasks", "dashEvents"}
    /\ activeTab = {"notes"}
    /\ activeNav = {"notes"}
    /\ pageTitle = NavLabel("notes")

\* C10: for every list loader, when the response it handles carries a
\* non-empty collection, the list region of its type holds afterwards one
\* block per entity of the collection, in the collection's order, each with
\* the controls of the type (complete and delete for tasks, delete alone
\* for events, emails and notes) bound to the id of its entity.
C10_OneBlockPerEntity ==
    [][ ev'.h = "list" /\ ev'.res = "ok" =>
          \E i \in Answered("list") :
              LET items == net[i].body.items
                  blocks == region'[ev'.rt].blocks
              IN  /\ net[i].rt = ev'.rt
                  /\ net' = RemoveAt(net, i)
                  /\ Len(items) > 0 =>
                        /\ region'[ev'.rt].kind = "items"
                        /\ Len(blocks) = Len(items)
                        /\ \A k \in 1..Len(items) :
                              /\ blocks[k].id = items[k].id
                              /\ blocks[k].ctl =
                                    IF ev'.rt = "task" THEN {"complete", "delete"}
                                    ELSE {"delete"}
      ]_vars

\* C11: for every list loader, when the response it handles carries an
\* empty collection, the list region of its type is afterwards exactly the
\* empty-state placeholder: no item block and no control is left in it,
\* whatever an earlier response had rendered there; the other regions are
\* unchanged.
C11_EmptyCollectionPlaceholder ==
    [][ ev'.h = "list" /\ ev'.res = "ok" =>
          \E i \in Answered("list") :
              /\ net[i].rt = ev'.rt
              /\ net' = RemoveAt(net, i)
              /\ Len(net[i].body.items) = 0 =>
                    /\ region'[ev'.rt].kind = "placeholder"
                    /\ region'[ev'.rt].blocks = <<>>
                    /\ \A rt \in RTypes \ {ev'.rt} : region'[rt] = region[rt]
      ]_vars

\* Both stock entities of the type in use have been deleted through the
\* controls an earlier response had rendered, and the list response that
\* followed carried an empty collection: the region holds the placeholder.
C11_Witness ==
    /\ ev.h = "list"
    /\ ev.res = "ok"
    /\ focus = {ev.rt}
    /\ Len(db) > 0
    /\ Collection(ev.rt, currentUserId) = <<>>
    /\ region[ev.rt] = [kind |-> "placeholder", blocks |-> <<>>]

\* The create-identity request of this page load has failed: loadUserId is
\* over and has set no session identity.
IdentityFailed ==
    /\ pc \in {"ready", "crashed"}
    /\ ~Truthy(currentUserId)

\* C12: once the create-identity request of a page load has failed, no
\* step of that page issues a request: no list fetch, no dashboard fetch, no
\* analytics fetch and no create request from a submitted form.
C12_NoRequestWithoutIdentity ==
    [][ IdentityFailed /\ ev'.h # "reload" =>
          /\ ev'.sent = <<>>
          /\ Len(net') <= Len(net)
      ]_vars

\* C13: in the state right after loadUserId has handled a create-identity
\* request that failed in any way (transport error, non-2xx status, or a
\* body without a handle), the error toast shows, the startup handler has
\* run to its end, so that the listeners are wired, and no create-identity
\* request has been issued again.
C13_IdentityFailureNonFatal ==
    ev.h = "loadUserId" /\ ev.res # "ok" =>
        /\ toast = [show |-> TRUE, type |-> "error"]
        /\ pc = "ready"
        /\ listeners
        /\ CountOp(ev.sent, "createUser") = 0

\* C14: for every list loader, the continuation of a list fetch that failed
\* (transport error, non-2xx status, or a body without the collection
\* field) shows an error toast and leaves every list region as it was.
C14_ListFailureKeepsRegion ==
    [][ ev'.h = "list" /\ ev'.res \in Outcomes \ {"ok"} =>
          /\ toast' = [show |-> TRUE, type |-> "error"]
          /\ timers' = timers + 1
          /\ region' = region
      ]_vars

\* C15: for every resource type, the continuation of a confirmed delete
\* whose DELETE was answered with a non-2xx status shows an error toast, not
\* a success toast, and issues no request (no list fetch, no dashboard
\* fetch), as it does after a transport error.
C15_DeleteRejectedIsError ==
    [][ ev'.h = "delete" /\ ev'.res \in {"reject", "neterr"} =>
          /\ toast' = [show |-> TRUE, type |-> "error"]
          /\ ev'.sent = <<>>
      ]_vars

\* C16: the continuation of a task completion whose PUT was answered with a
\* non-2xx status shows an error toast and issues no request (no list
\* fetch, no dashboard fetch), as it does after a transport error.
C16_UpdateRejectedIsError ==
    [][ ev'.h = "update" /\ ev'.res \in {"reject", "neterr"} =>
          /\ toast' = [show |-> TRUE, type |-> "error"]
          /\ timers' = timers + 1
          /\ ev'.sent = <<>>
      ]_vars

\* The requests of s that start a dashboard refresh: the tasks fetch of
\* loadDashboardData.
DashboardFetches(s) == CountCont(s, "dashTasks", "task")

\* C17 as stated: for each of the four resource types, with a session
\* identity present, the continuation of a create request answered 2xx
\* starts a dashboard refresh in addition to the list fetch of its type.
C17_DashboardAfterEveryCreate ==
    [][ ev'.h = "create" /\ ev'.res = "ok" /\ Truthy(currentUserId) =>
          /\ CountCont(ev'.sent, "list", ev'.rt) = 1
          /\ DashboardFetches(ev'.sent) = 1
      ]_vars

\* C17 amended: with a session identity present, the continuation of a
\* create request answered 2xx issues the list fetch of its type and, for
\* tasks and events, starts one dashboard refresh for the identity; for
\* emails and notes it issues the list fetch alone.
C17_DashboardAfterTaskOrEventCreate ==
    [][ ev'.h = "create" /\ ev'.res = "ok" /\ Truthy(currentUserId) =>
          /\ CountCont(ev'.sent, "list", ev'.rt) = 1
          /\ IF ev'.rt \in {"task", "event"}
             THEN /\ DashboardFetches(ev'.sent) = 1
                  /\ Len(ev'.sent) = 2
                  /\ \A k \in 1..Len(ev'.sent) :
                         ev'.sent[k].cont = "dashTasks" =>
                            /\ ev'.sent[k].op = "list"
                            /\ ev'.sent[k].uid = currentUserId
             ELSE /\ DashboardFetches(ev'.sent) = 0
                  /\ Len(ev'.sent) = 1
      ]_vars

\* An email or a note has been created and the response handled while
\* nothing else was in flight: the list fetch of the type is the one
\* request in flight, and no dashboard fetch.
C17_Witness ==
    /\ ev.h = "create"
    /\ ev.res = "ok"
    /\ ev.rt \in {"email", "note"}
    /\ Truthy(currentUserId)
    /\ Len(net) = 1
    /\ net[1].cont = "list"
    /\ net[1].rt = ev.rt
    /\ Collection(ev.rt, currentUserId) # <<>>

\* The analytics region that trigger which does not write.
OtherAnalytics(which) == IF which = "daily" THEN "weekly" ELSE "daily"

\* C18 as stated: the continuation of an analytics response whose body
\* parses sets the region of its trigger to the text of the field, as
\* returned, whenever the field is there, and to the placeholder when it is
\* not.
C18_AnalyticsTextVerbatim ==
    [][ ev'.h = "analytics" /\ ev'.res \in {"ok", "malformed", "reject"} =>
          \E i \in Answered("analytics") :
              /\ net[i].rt = ev'.rt
              /\ net' = RemoveAt(net, i)
              /\ analytics'[ev'.rt] = IF HasField(net[i]) THEN net[i].body.val
                                      ELSE "No data available"
      ]_vars

\* C18 amended: with a session identity present, a click on an analytics
\* trigger issues exactly one GET, to the endpoint of that trigger and
\* scoped to the identity; the continuation of a response whose body parses
\* sets the region of that trigger to the text of the field when the field
\* is there and is not the empty string, and to the placeholder otherwise,
\* and leaves the other analytics region as it was; neither step changes a
\* list region, a counter or a form.
C18_AnalyticsTextOrPlaceholder ==
    [][ /\ ev'.h = "analyticsClick" /\ Truthy(currentUserId) =>
              /\ Len(ev'.sent) = 1
              /\ ev'.sent[1].op = "analytics"
              /\ ev'.sent[1].rt = ev'.rt
              /\ ev'.sent[1].uid = currentUserId
              /\ net' = net \o ev'.sent
              /\ analytics' = analytics
        /\ ev'.h = "analytics" /\ ev'.res \in {"ok", "malformed", "reject"} =>
              \E i \in Answered("analytics") :
                  /\ net[i].rt = ev'.rt
                  /\ net' = RemoveAt(net, i)
                  /\ analytics'[ev'.rt] =
                        IF HasField(net[i]) /\ net[i].body.val # ""
                        THEN net[i].body.val ELSE "No data available"
                  /\ analytics'[OtherAnalytics(ev'.rt)] =
                        analytics[OtherAnalytics(ev'.rt)]
        /\ ev'.h \in {"analyticsClick", "analytics"} =>
              /\ region' = region
              /\ counters' = counters
              /\ formHidden' = formHidden
              /\ fields' = fields
      ]_vars

\* With an identity, the summary has been asked for, the backend has
\* answered 2xx with an empty text, and the region shows the placeholder;
\* the report was shown before, from a non-empty text.
C18_Witness ==
    /\ ev.h = "analytics"
    /\ ev.res = "ok"
    /\ ev.rt = "daily"
    /\ Truthy(currentUserId)
    /\ analytics["daily"] = "No data available"
    /\ analytics["weekly"] = "text"

\* The handles the backend has returned so far.
IssuedHandles == {Handle(n) : n \in 1..(nextUser - 1)}

\* C19: the value under 'userId' is always absent or a handle the backend
\* returned: a create-identity attempt that failed, or whose response
\* carried no handle, has persisted nothing.
C19_StoredIsAbsentOrHandle ==
    localStorage = JSNull \/ localStorage \in IssuedHandles

\* C20: once a handle is persisted under 'userId', no step of the client
\* writes the key again: the value is the same after every user action,
\* every response and every page load.
C20_StoredIdentityNeverRewritten ==
    [][ (localStorage \in IssuedHandles) => localStorage' = localStorage ]_vars

\* The number of identities the backend has created.
IdentitiesCreated == nextUser - 1

\* C21: over the page loads that share one local storage, a reload or a
\* load that starts while a create-identity request is in flight included,
\* the backend creates at most one identity, and every identity-scoped
\* request in flight carries the one handle that is stored.
C21_OneIdentityPerProfile ==
    /\ IdentitiesCreated <= 1
    /\ \A i \in 1..Len(net) :
          net[i].op # "createUser" => net[i].uid = ToStr(localStorage)

\* The ids the backend has issued to entities.
IssuedIds == 1..(nextId - 1)

\* C22: every update or delete request the client issues carries the id of
\* an item block rendered into the list region of its type from a list
\* response, and that id is one the backend issued: the client issues no
\* mutation for an id that no list response gave to an entity.
C22_MutationIdsFromListResponses ==
    [][ ev'.h \in {"complete", "remove"} /\ ev'.sent # <<>> =>
          /\ Len(ev'.sent) = 1
          /\ ev'.sent[1].eid = ev'.eid
          /\ \E k \in 1..Len(region[ev'.rt].blocks) :
                 region[ev'.rt].blocks[k].id = ev'.eid
          /\ ev'.eid \in IssuedIds
      ]_vars

\* C23: for every form, a click on the open control leaves the form
\* visible whatever its state before, and a click on the cancel control
\* leaves it hidden whatever its state before.
C23_ShowHideIdempotent ==
    [][ /\ ev'.h = "open" => ~formHidden'[ev'.rt]
        /\ ev'.h = "cancel" => formHidden'[ev'.rt]
      ]_vars

\* C24: navigation triggers the list fetch of a section only on entry to
\* it: a click on the nav control of the section that is already the active
\* one issues no list fetch.
C24_NoFetchOnReselect ==
    [][ ev'.h = "switchTab" /\ ev'.rt \in activeTab =>
          CountOp(ev'.sent, "list") = 0
      ]_vars

\* C25: a click on the complete control of a task issues at once, with no
\* prompt, exactly one PUT for the id of that task with status 'completed';
\* the continuation of that request answered 2xx issues exactly one tasks
\* list fetch and starts exactly one dashboard refresh; neither step changes
\* a list region.
C25_CompleteThenReload ==
    [][ /\ ev'.h = "complete" =>
              /\ Len(ev'.sent) = 1
              /\ ev'.sent[1].op = "update"
              /\ ev'.sent[1].rt = "task"
              /\ ev'.sent[1].eid = ev'.eid
              /\ ev'.sent[1].payload.b = "completed"
              /\ Shows("task", ev'.eid, "complete")
              /\ net' = net \o ev'.sent
              /\ region' = region
        /\ ev'.h = "update" /\ ev'.res = "ok" =>
              /\ Len(ev'.sent) = 2
              /\ CountCont(ev'.sent, "list", "task") = 1
              /\ DashboardFetches(ev'.sent) = 1
              /\ \A k \in 1..2 : ev'.sent[k].op = "list"
                                     /\ ev'.sent[k].uid = currentUserId
              /\ region' = region
      ]_vars

\* The first task has been completed through its control and the response
\* handled while nothing else was in flight: the backend holds it as
\* completed, and the tasks list fetch and the dashboard's tasks fetch are
\* the two requests in flight.
C25_Witness ==
    /\ ev.h = "update"
    /\ ev.res = "ok"
    /\ ev.eid = 1
    /\ \E i \in 1..Len(db) : db[i].id = 1 /\ db[i].rt = "task"
                                /\ db[i].status = "completed"
    /\ Len(net) = 2
    /\ net[1].cont = "list" /\ net[1].rt = "task"
    /\ net[2].cont = "dashTasks"

\* C26: a submit is not held back by a create request that is pending:
\* every submit of a form, the email form without recipient excepted,
\* issues one create request with the form's fields and leaves the form as
\* it is, filled in and visible, so that n submits before any response
\* issue n create requests.
C26_NoSubmitGuard ==
    [][ ev'.h = "submit" /\ ~(ev'.rt = "email" /\ ~Truthy(fields["email"].a)) =>
          /\ Len(ev'.sent) = 1
          /\ ev'.sent[1].op = "create"
          /\ ev'.sent[1].rt = ev'.rt
          /\ ev'.sent[1].payload = fields[ev'.rt]
          /\ net' = net \o ev'.sent
          /\ fields' = fields
          /\ formHidden' = formHidden
      ]_vars

\* One form was filled in and submitted as often as MaxInflight allows
\* before any response arrived; the backend has answered every one of the
\* create requests 2xx, none of the responses has been handled yet, and the
\* backend holds that many entities with the form's content.
C26_Witness ==
    /\ Len(net) = MaxInflight
    /\ \A i \in 1..Len(net) :
          /\ net[i].op = "create"
          /\ net[i].st = "done"
          /\ net[i].out = "ok"
          /\ net[i].payload = net[1].payload
          /\ net[i].rt = net[1].rt
          /\ Truthy(net[i].payload.a)
    /\ Cardinality({k \in 1..Len(db) :
                       /\ db[k].rt = net[1].rt
                       /\ db[k].owner = net[1].uid
                       /\ db[k].a = net[1].payload.a
                       /\ db[k].id > nextId - 1 - MaxInflight}) = MaxInflight

\* C27: the content of each list region is the rendering of the collection
\* of the most recently received successful list response of its section:
\* within one document a region changes only in the continuation of a list
\* response of its section that was answered 2xx, and when that response
\* carries a collection the continuation sets the region to the rendering
\* of that whole collection, whatever the order in which the requests were
\* issued.
C27_LastSuccessfulResponseWins ==
    [][ ev'.h \notin {"reload", "secondWindow"} =>
          /\ \A rt \in RTypes :
                region'[rt] # region[rt] =>
                    /\ ev'.h = "list"
                    /\ ev'.rt = rt
                    /\ ev'.res \in {"ok", "malformed"}
          /\ ev'.h = "list" /\ ev'.res = "ok" =>
                \E i \in Answered("list") :
                    /\ net[i].rt = ev'.rt
                    /\ net' = RemoveAt(net, i)
                    /\ region'[ev'.rt] = RenderList(ev'.rt, net[i].body.items)
      ]_vars

\* C28: the continuation of a list response that carries a collection sets
\* the list region of the section the request was issued for, whatever
\* section is active when it runs, and the continuation of any list
\* response leaves the active section, the active nav control, the page
\* title, the list regions of the other sections, the forms and their
\* fields and the value under 'userId' as they were.
C28_ListResponseFrame ==
    [][ ev'.h = "list" =>
          /\ ev'.res = "ok" =>
                \E i \in Answered("list") :
                    /\ net[i].rt = ev'.rt
                    /\ net' = RemoveAt(net, i)
                    /\ region'[ev'.rt] = RenderList(ev'.rt, net[i].body.items)
          /\ activeTab' = activeTab
          /\ activeNav' = activeNav
          /\ pageTitle' = pageTitle
          /\ \A rt \in RTypes \ {ev'.rt} : region'[rt] = region[rt]
          /\ formHidden' = formHidden
          /\ fields' = fields
          /\ localStorage' = localStorage
      ]_vars

\* The tasks section was entered and left for the calendar before its list
\* response arrived: the response has been rendered into the tasks region
\* while the calendar is the active section.
C28_Witness ==
    /\ ev.h = "list"
    /\ ev.res = "ok"
    /\ ev.rt = "task"
    /\ activeTab = {"calendar"}
    /\ pageTitle = NavLabel("calendar")
    /\ region["task"].kind = "items"
    /\ region["event"] = InitialRegion

\* The number of mutation requests (create, update, delete) in s.
CountMutations(s) ==
    CountOp(s, "create") + CountOp(s, "update") + CountOp(s, "delete")

\* C29: nothing is retried: the continuation of a request that failed, by a
\* transport failure or a non-2xx status, issues no request, and a mutation
\* request is issued only by a submit, a click on a complete control or a
\* confirmed delete, one for each.
C29_NothingAfterFailure ==
    [][ /\ ev'.res \in {"reject", "garbled", "neterr"} => ev'.sent = <<>>
        /\ CountMutations(ev'.sent) <=
              IF \/ ev'.h \in {"submit", "complete"}
                 \/ ev'.h = "remove" /\ ev'.res = "confirmed"
              THEN 1 ELSE 0
      ]_vars

\* C30: a notification stays visible until the dismissal timer of the
\* showToast call that showed it fires: a timer that fires while a timer of
\* a later showToast call is still pending does not hide the notification.
\* Timers have one delay and so fire in the order of their calls: with more
\* than one pending, the one that fires is not that of the latest call.
C30_ToastHiddenByOwnTimer ==
    [][ ev'.h = "timer" /\ timers > 1 /\ toast.show => toast'.show ]_vars

\* The identity bootstrap of the document has not finished: the load
\* handler has not run yet, or loadUserId awaits the create-identity
\* response.
Bootstrapping == pc \in {"start", "awaitUser"}

\* C31: during a page load no listener is wired and the document issues no
\* request other than the create-identity request until the identity
\* bootstrap has finished, with an identity or with a caught error; the
\* initial dashboard refresh is started by the step that wires the
\* listeners, never before, and only if that step leaves a session
\* identity set, for which it is then issued.
C31_NothingBeforeBootstrap ==
    [][ /\ listeners' => pc' = "ready"
        /\ Bootstrapping' =>
              \A k \in 1..Len(ev'.sent) : ev'.sent[k].op = "createUser"
        /\ ev'.h \in {"DOMContentLoaded", "loadUserId"} =>
              IF DashboardFetches(ev'.sent) > 0
              THEN /\ listeners'
                   /\ Truthy(currentUserId')
                   /\ ev'.sent = loadDashboardData(currentUserId')
              ELSE \/ CountOp(ev'.sent, "createUser") = Len(ev'.sent) /\ ~listeners'
                   \/ ev'.sent = <<>> /\ ~Truthy(currentUserId')
      ]_vars

\* A page load on a fresh profile whose create-identity request failed in
\* transport: the error was caught, the listeners are wired, there is no
\* session identity, and no dashboard request or other request is in
\* flight.
C31_Witness ==
    /\ ev.h = "loadUserId"
    /\ ev.res = "neterr"
    /\ pc = "ready"
    /\ listeners
    /\ ~Truthy(currentUserId)
    /\ localStorage = JSNull
    /\ net = <<>>

\* C32: within a dashboard refresh the events request is issued only by
\* the continuation of the tasks response, in the step that writes the task
\* counter from it; when the tasks fetch fails that continuation issues no
\* request and changes no counter; when the events fetch fails its
\* continuation changes no counter, so the task counter keeps the value
\* written before; and no continuation of a dashboard fetch shows a
\* notification.
C32_DashboardSequence ==
    [][ /\ \A k \in 1..Len(ev'.sent) :
              ev'.sent[k].cont = "dashEvents" => ev'.h = "dashTasks" /\ ev'.res = "ok"
        /\ ev'.h = "dashTasks" /\ ev'.res = "ok" =>
              \E i \in Answered("dashTasks") :
                  /\ net' = RemoveAt(net, i) \o ev'.sent
                  /\ counters' = [counters EXCEPT
                                     !["task"] = ActiveTasks(net[i].body.items)]
                  /\ Len(ev'.sent) = 1
                  /\ ev'.sent[1].op = "list"
                  /\ ev'.sent[1].rt = "event"
                  /\ ev'.sent[1].cont = "dashEvents"
                  /\ ev'.sent[1].uid = currentUserId
        /\ ev'.h \in {"dashTasks", "dashEvents"} /\ ev'.res # "ok" =>
              /\ ev'.sent = <<>>
              /\ counters' = counters
        /\ ev'.h \in {"dashTasks", "dashEvents"} =>
              /\ toast' = toast
              /\ timers' = timers
      ]_vars

\* A page load with a stored identity whose dashboard refresh got its
\* tasks response and then lost its events fetch: the task counter shows
\* the count, the other counters are as the document delivered them, no
\* notification is shown and nothing is in flight.
C32_Witness ==
    /\ ev.h = "dashEvents"
    /\ ev.res \in Outcomes \ {"ok"}
    /\ counters["task"] = Cardinality({i \in 1..Len(db) :
                              /\ db[i].rt = "task"
                              /\ db[i].owner = currentUserId
                              /\ db[i].status # "completed"})
    /\ Len(db) > 0
    /\ \A rt \in RTypes \ {"task"} : counters[rt] = Blank.counters[rt]
    /\ ~toast.show
    /\ timers = 0
    /\ net = <<>>

=============================================================================
